---- MODULE Spec2Model ----
(***************************************************************************)
(* Model of the Node.js plugin (crates/node/src/proto.rs): the handlers    *)
(* load_versions, resolve_version, parse_version_file and download_prebuilt *)
(* with the manifest type of crates/common/src/package_json.rs.             *)
(*                                                                          *)
(* Strings that the code slices, compares by prefix, lower-cases or parses  *)
(* are sequences of one-character strings (all ASCII, so a byte index is a  *)
(* character index).  Strings that the code only assembles with format! are *)
(* TLC strings joined with \o.                                              *)
(***************************************************************************)
EXTENDS Naturals, Sequences, FiniteSets, TLC

VARIABLES op, pc, input, env, fetched, reply, locals, output

vars == <<op, pc, input, env, fetched, reply, locals, output>>

\* ------------------------------------------------------------------ bounds
\* Longest release index returned by fetch_url in load_versions.
MaxEntries == 3
\* Longest nightly index returned by fetch_url in download_prebuilt.
MaxNightly == 2
\* Longest alias drawn from AliasAlphabet for resolve_version.
MaxAliasLen == 5

\* ----------------------------------------------------------------- strings
Digits == <<"0", "1", "2", "3", "4", "5", "6", "7", "8", "9">>

IsDigit(c) == \E i \in 1..10 : Digits[i] = c

DigitVal(c) == (CHOOSE i \in 1..10 : Digits[i] = c) - 1

Upper == <<"A", "B", "C", "D", "E", "F", "G", "H", "I", "J", "K", "L", "M",
           "N", "O", "P", "Q", "R", "S", "T", "U", "V", "W", "X", "Y", "Z">>

Lower == <<"a", "b", "c", "d", "e", "f", "g", "h", "i", "j", "k", "l", "m",
           "n", "o", "p", "q", "r", "s", "t", "u", "v", "w", "x", "y", "z">>

IsAlpha(c) == \E i \in 1..26 : Upper[i] = c \/ Lower[i] = c

ToLowerChar(c) ==
    IF \E i \in 1..26 : Upper[i] = c
    THEN Lower[CHOOSE i \in 1..26 : Upper[i] = c]
    ELSE c

\* str::to_lowercase
ToLowercase(s) == [i \in 1..Len(s) |-> ToLowerChar(s[i])]

\* str::starts_with
StartsWith(s, p) == Len(s) >= Len(p) /\ SubSeq(s, 1, Len(p)) = p

\* Display of a string: the characters joined into one TLC string.
RECURSIVE Show(_)
Show(s) == IF s = <<>> THEN "" ELSE Head(s) \o Show(Tail(s))

\* Display of an unsigned integer.
RECURSIVE ShowNat(_)
ShowNat(n) ==
    IF n < 10 THEN Digits[n + 1] ELSE ShowNat(n \div 10) \o Digits[(n % 10) + 1]

\* Position of the first occurrence of character c in s, 0 when absent.
RECURSIVE IndexOf(_, _, _)
IndexOf(s, c, i) ==
    IF i > Len(s) THEN 0 ELSE IF s[i] = c THEN i ELSE IndexOf(s, c, i + 1)

\* str::split on one character.
RECURSIVE Split(_, _)
Split(s, c) ==
    LET i == IndexOf(s, c, 1)
    IN  IF i = 0 THEN <<s>>
        ELSE <<SubSeq(s, 1, i - 1)>> \o Split(SubSeq(s, i + 1, Len(s)), c)

\* A numeric identifier of a semantic version: digits, no leading zero.
IsNumeric(s) ==
    /\ Len(s) >= 1
    /\ \A i \in 1..Len(s) : IsDigit(s[i])
    /\ (Len(s) > 1 => s[1] # "0")

RECURSIVE NatVal(_)
NatVal(s) ==
    IF s = <<>> THEN 0
    ELSE 10 * NatVal(SubSeq(s, 1, Len(s) - 1)) + DigitVal(s[Len(s)])

\* ---------------------------------------------------------------- versions
None == [tag |-> "None"]

Some(v) == [tag |-> "Some", value |-> v]

Ok(v) == [tag |-> "Ok", value |-> v]

Err(kind, what) == [tag |-> "Err", kind |-> kind, what |-> what]

Panic(why) == [tag |-> "Panic", why |-> why]

\* semver::Version
Ver(major, minor, patch, pre) ==
    [major |-> major, minor |-> minor, patch |-> patch, pre |-> pre]

\* semver::Version::parse: MAJOR.MINOR.PATCH with an optional -PRERELEASE.
VersionParse(s) ==
    LET dash  == IndexOf(s, "-", 1)
        core  == IF dash = 0 THEN s ELSE SubSeq(s, 1, dash - 1)
        pre   == IF dash = 0 THEN <<>> ELSE SubSeq(s, dash + 1, Len(s))
        parts == Split(core, ".")
    IN  IF /\ Len(parts) = 3
           /\ \A i \in 1..3 : IsNumeric(parts[i])
           /\ (dash # 0 => pre # <<>>)
        THEN Ok(Ver(NatVal(parts[1]), NatVal(parts[2]), NatVal(parts[3]), pre))
        ELSE Err("MalformedVersion", s)

\* Display of semver::Version.
ShowVer(v) ==
    ShowNat(v.major) \o "." \o ShowNat(v.minor) \o "." \o ShowNat(v.patch)
        \o (IF v.pre = <<>> THEN "" ELSE "-" \o Show(v.pre))

\* ------------------------------------------------------------ load_versions
\* node_common::NodeDistLTS: the index's "lts" field, a channel name or false.
Name(s) == [tag |-> "Name", name |-> s]

State(b) == [tag |-> "State", state |-> b]

\* node_common::NodeDistVersion, the fields load_versions reads.
NodeDistVersion(version, lts) == [version |-> version, lts |-> lts]

\* Raw "version" strings of index entries: a release tag, a tag without the
\* "v" and a tag that is no semantic version.
RawVersions ==
    { <<"v", "2", "0", ".", "1", ".", "0">>,
      <<"1", "8", ".", "0", ".", "0">>,
      <<"v", "1", ".", "x">> }

\* "lts" values of index entries.
LtsValues ==
    { State(FALSE),
      Name(<<"I", "r", "o", "n">>),
      Name(<<"i", "r", "o", "n">>),
      Name(<<"L", "a", "t", "e", "s", "t">>),
      Name(<<"S", "t", "a", "b", "l", "e">>) }

IndexEntries == { NodeDistVersion(v, l) : v \in RawVersions, l \in LtsValues }

\* What fetch_url can give back: an error, or the deserialized entries.
FetchError == Err("CatalogUnavailable", "fetch_url")

ReleaseIndexUrl == "https://nodejs.org/download/release/index.json"

StableKey == <<"s", "t", "a", "b", "l", "e">>

LatestKey == <<"l", "a", "t", "e", "s", "t">>

\* LoadVersionsOutput::default()
DefaultLoadOutput == [latest |-> None, aliases |-> <<>>, versions |-> <<>>]

\* HashMap::insert
Insert(aliases, key, version) ==
    [k \in (DOMAIN aliases) \cup {key} |-> IF k = key THEN version ELSE aliases[k]]

\* Variant of InsertStable in which the last channelled entry wins.
InsertStableLastWins(aliases, version) == Insert(aliases, StableKey, version)

\* if !aliases.contains_key("stable") { aliases.insert("stable", version) }
InsertStable(aliases, version) ==
    IF StableKey \in DOMAIN aliases
    THEN aliases
    ELSE Insert(aliases, StableKey, version)

\* Variant of InsertChannel in which the last entry of a channel wins.
InsertChannelLastWins(aliases, alias, version) == Insert(aliases, alias, version)

\* if !aliases.contains_key(&alias) { aliases.insert(alias, version) }
InsertChannel(aliases, alias, version) ==
    IF alias \in DOMAIN aliases THEN aliases ELSE Insert(aliases, alias, version)

\* &item.version[1..]: everything after the first byte.
StripMarker(raw) == SubSeq(raw, 2, Len(raw))

\* if index == 0
IsLatestIndex(index) == index = 0

\* The body of the for loop for one (index, item).
LoadItem(out, index, item) ==
    IF Len(item.version) < 1
    THEN Panic("byte index 1 is out of bounds")
    ELSE LET parsed == VersionParse(StripMarker(item.version))
         IN  IF parsed.tag = "Err" THEN parsed
             ELSE LET version == parsed.value
                      o1 == IF IsLatestIndex(index)
                            THEN [out EXCEPT !.latest = Some(version)]
                            ELSE out
                      o2 == IF item.lts.tag = "Name"
                            THEN [o1 EXCEPT !.aliases =
                                     InsertChannel(
                                         InsertStable(@, version),
                                         ToLowercase(item.lts.name), version)]
                            ELSE o1
                  IN  Ok([o2 EXCEPT !.versions = Append(@, version)])

\* The for loop over response.iter().enumerate(), from position index on.
RECURSIVE LoadLoop(_, _, _)
LoadLoop(response, index, out) ==
    IF index >= Len(response) THEN Ok(out)
    ELSE LET r == LoadItem(out, index, response[index + 1])
         IN  IF r.tag = "Ok" THEN LoadLoop(response, index + 1, r.value) ELSE r

\* Variant of InsertLatest that keeps a "latest" alias already in the table.
InsertLatestKeep(out) ==
    IF out.latest.tag = "None"
    THEN Panic("called Option::unwrap() on a None value")
    ELSE Ok([out EXCEPT !.aliases =
                IF LatestKey \in DOMAIN @ THEN @
                ELSE Insert(@, LatestKey, out.latest.value)])

\* output.aliases.insert("latest", output.latest.clone().unwrap())
InsertLatest(out) ==
    IF out.latest.tag = "None"
    THEN Panic("called Option::unwrap() on a None value")
    ELSE Ok([out EXCEPT !.aliases = Insert(@, LatestKey, out.latest.value)])

\* load_versions, given what fetch_url gave back.
LoadVersionsResult(rep) ==
    IF rep.tag = "Err" THEN rep
    ELSE LET looped == LoadLoop(rep.value, 0, DefaultLoadOutput)
         IN  IF looped.tag = "Ok" THEN InsertLatest(looped.value) ELSE looped

\* ---------------------------------------------------------- version specs
\* version_spec::VersionSpec and UnresolvedVersionSpec
Canary == [tag |-> "Canary"]

Alias(a) == [tag |-> "Alias", alias |-> a]

Version(v) == [tag |-> "Version", version |-> v]

Req(r) == [tag |-> "Req", req |-> r]

\* str::trim for the space character.
RECURSIVE Trim(_)
Trim(s) ==
    IF s = <<>> THEN s
    ELSE IF Head(s) = " " THEN Trim(Tail(s))
    ELSE IF s[Len(s)] = " " THEN Trim(SubSeq(s, 1, Len(s) - 1))
    ELSE s

\* version_spec: the string trimmed and without a leading "v" or "V".
CleanVersionString(s) ==
    LET t == Trim(s)
    IN  IF t # <<>> /\ t[1] \in {"v", "V"} /\ Len(t) > 1 /\ IsDigit(t[2])
        THEN Tail(t)
        ELSE t

\* version_spec: a letter followed by letters, digits and - _ / . *
IsAliasName(s) ==
    /\ s # <<>>
    /\ IsAlpha(s[1])
    /\ \A i \in 2..Len(s) :
        IsAlpha(s[i]) \/ IsDigit(s[i]) \/ s[i] \in {"-", "_", "/", ".", "*"}

Comparators == {<<">", "=">>, <<"<", "=">>, <<">">>, <<"<">>, <<"^">>, <<"~">>, <<"=">>}

\* A version with one to three numeric parts, as a requirement allows.
IsPartialVersion(s) ==
    LET parts == Split(s, ".")
    IN  Len(parts) \in 1..3 /\ \A i \in 1..Len(parts) : IsNumeric(parts[i])

\* VersionSpec::parse
VersionSpecParse(s) ==
    LET t == CleanVersionString(s)
    IN  IF t = <<"c", "a", "n", "a", "r", "y">> THEN Ok(Canary)
        ELSE IF IsAliasName(t) THEN Ok(Alias(t))
        ELSE LET v == VersionParse(t)
             IN  IF v.tag = "Ok" THEN Ok(Version(v.value))
                 ELSE Err("InvalidVersionSpec", s)

\* UnresolvedVersionSpec::parse
UnresolvedParse(s) ==
    LET t == CleanVersionString(s)
        v == VersionParse(t)
    IN  IF t = <<"c", "a", "n", "a", "r", "y">> THEN Ok(Canary)
        ELSE IF IsAliasName(t) THEN Ok(Alias(t))
        ELSE IF v.tag = "Ok" THEN Ok(Version(v.value))
        ELSE IF \/ IsPartialVersion(t)
                \/ \E c \in Comparators :
                    StartsWith(t, c) /\ IsPartialVersion(SubSeq(t, Len(c) + 1, Len(t)))
        THEN Ok(Req(t))
        ELSE Err("InvalidVersionSpec", s)

\* Display of VersionSpec.
ShowSpec(spec) ==
    CASE spec.tag = "Canary"  -> "canary"
      [] spec.tag = "Alias"   -> Show(spec.alias)
      [] spec.tag = "Version" -> ShowVer(spec.version)

\* ---------------------------------------------------------- resolve_version
NodeAlias == <<"n", "o", "d", "e">>

LtsDash == <<"l", "t", "s", "-">>

LtsSlash == <<"l", "t", "s", "/">>

LtsDashStar == <<"l", "t", "s", "-", "*">>

LtsSlashStar == <<"l", "t", "s", "/", "*">>

\* &alias[4..]
AfterPrefix(alias) == SubSeq(alias, 5, Len(alias))

\* Variant of Candidate that tries the prefix rule before the exact rule.
CandidatePrefixFirst(alias) ==
    IF alias = NodeAlias THEN Some(LatestKey)
    ELSE IF StartsWith(alias, LtsDash) \/ StartsWith(alias, LtsSlash)
    THEN Some(AfterPrefix(alias))
    ELSE IF alias = LtsDashStar \/ alias = LtsSlashStar THEN Some(StableKey)
    ELSE None

\* The if / else-if chain that picks the candidate name; None is the early
\* return that leaves output.candidate unset.
Candidate(alias) ==
    IF alias = NodeAlias THEN Some(LatestKey)
    ELSE IF alias = LtsDashStar \/ alias = LtsSlashStar THEN Some(StableKey)
    ELSE IF StartsWith(alias, LtsDash) \/ StartsWith(alias, LtsSlash)
    THEN Some(AfterPrefix(alias))
    ELSE None

\* resolve_version
ResolveVersionResult(initial) ==
    IF initial.tag = "Alias"
    THEN LET c == Candidate(initial.alias)
         IN  IF c.tag = "Some"
             THEN Ok([candidate |-> Some(Alias(c.value))])
             ELSE Ok([candidate |-> None])
    ELSE Ok([candidate |-> None])

AliasAlphabet == {"l", "t", "s", "-", "/", "*"}

\* The initial specs resolve_version is called with, next to the aliases of
\* up to MaxAliasLen characters of AliasAlphabet.
InitialSpecs ==
    { Alias(a) : a \in { NodeAlias, LatestKey, StableKey,
                             <<"N", "o", "d", "e">>,
                             <<"l", "t", "s", "-", "I", "r", "o", "n">>,
                             <<"l", "t", "s", "/", "h", "y", "d", "r", "o", "g", "e", "n">>,
                             <<"l", "t", "s", "-", "*", "x">>,
                             <<"L", "T", "S", "-", "i", "r", "o", "n">> } }
    \cup { Canary, Version(Ver(18, 10, 0, <<>>)), Req(<<">", "=", "1", "8">>) }

\* ------------------------------------------------------- parse_version_file
BIN == "node"

\* JSON values, as serde_json reads them from a text.
JNull == [t |-> "null"]

JNum == [t |-> "number"]

JArr == [t |-> "array"]

JStr(s) == [t |-> "string", s |-> s]

JObj(fields) == [t |-> "object", fields |-> fields]

\* The text is no JSON document.
JInvalid == [t |-> "invalid"]

\* A file content: its text, and the JSON value the text denotes.
Doc(text, json) == [text |-> text, json |-> json]

Contents ==
    { Doc(<<"{", "\"", "e", "n", "g", "i", "n", "e", "s", "\"", ":", "{", "\"", "n", "o", "d", "e", "\"", ":", "\"", ">", "=", "1", "8", "\"", "}", "}">>,
          JObj([engines |-> JObj([node |-> JStr(<<">", "=", "1", "8">>)])])),
      Doc(<<"{", "\"", "e", "n", "g", "i", "n", "e", "s", "\"", ":", "{", "\"", "n", "o", "d", "e", "\"", ":", "\"", " ", "1", "8", ".", "1", "0", ".", "0", " ", "\"", "}", "}">>,
          JObj([engines |-> JObj([node |-> JStr(<<" ", "1", "8", ".", "1", "0", ".", "0", " ">>)])])),
      Doc(<<"{", "\"", "e", "n", "g", "i", "n", "e", "s", "\"", ":", "{", "\"", "n", "o", "d", "e", "\"", ":", "\"", "@", "@", "\"", "}", "}">>,
          JObj([engines |-> JObj([node |-> JStr(<<"@", "@">>)])])),
      Doc(<<"{", "\"", "e", "n", "g", "i", "n", "e", "s", "\"", ":", "{", "\"", "n", "p", "m", "\"", ":", "\"", "9", "\"", "}", "}">>,
          JObj([engines |-> JObj([npm |-> JStr(<<"9">>)])])),
      Doc(<<"{", "\"", "e", "n", "g", "i", "n", "e", "s", "\"", ":", "{", "\"", "n", "o", "d", "e", "\"", ":", "1", "8", "}", "}">>,
          JObj([engines |-> JObj([node |-> JNum])])),
      Doc(<<"{", "\"", "e", "n", "g", "i", "n", "e", "s", "\"", ":", "\"", "n", "o", "d", "e", "\"", "}">>,
          JObj([engines |-> JStr(<<"n", "o", "d", "e">>)])),
      Doc(<<"{", "\"", "e", "n", "g", "i", "n", "e", "s", "\"", ":", "n", "u", "l", "l", "}">>,
          JObj([engines |-> JNull])),
      Doc(<<"{", "\"", "n", "a", "m", "e", "\"", ":", "\"", "a", "p", "p", "\"", "}">>,
          JObj([name |-> JStr(<<"a", "p", "p">>)])),
      Doc(<<"{", "\"", "n", "a", "m", "e", "\"", ":", "1", ",", "\"", "e", "n", "g", "i", "n", "e", "s", "\"", ":", "{", "\"", "n", "o", "d", "e", "\"", ":", "\"", "1", "8", "\"", "}", "}">>,
          JObj([name |-> JNum, engines |-> JObj([node |-> JStr(<<"1", "8">>)])])),
      Doc(<<"{", "\"", "b", "i", "n", "\"", ":", "{", "\"", "a", "\"", ":", "\"", "b", "\"", "}", ",", "\"", "v", "o", "l", "t", "a", "\"", ":", "{", "\"", "n", "o", "d", "e", "\"", ":", "\"", "1", "8", "\"", "}", ",", "\"", "e", "n", "g", "i", "n", "e", "s", "\"", ":", "{", "\"", "n", "o", "d", "e", "\"", ":", "\"", "l", "t", "s", "-", "*", "\"", "}", "}">>,
          JObj([bin |-> JObj([a |-> JStr(<<"b">>)]), volta |-> JObj([node |-> JStr(<<"1", "8">>)]), engines |-> JObj([node |-> JStr(<<"l", "t", "s", "-", "*">>)])])),
      Doc(<<"{", "\"", "b", "i", "n", "\"", ":", "1", ",", "\"", "e", "n", "g", "i", "n", "e", "s", "\"", ":", "{", "\"", "n", "o", "d", "e", "\"", ":", "\"", "1", "8", "\"", "}", "}">>,
          JObj([bin |-> JNum, engines |-> JObj([node |-> JStr(<<"1", "8">>)])])),
      Doc(<<"{", "}">>,
          JObj(<<>>)),
      Doc(<<"[", "]">>,
          JArr),
      Doc(<<"n", "o", "t", " ", "j", "s", "o", "n">>,
          JInvalid),
      Doc(<<"1", "8", ".", "1", "0", ".", "0">>,
          JInvalid),
      Doc(<<" ", "v", "2", "0", ".", "1", ".", "0", " ">>,
          JInvalid),
      Doc(<<"n", "o", "t", "-", "a", "-", "v", "e", "r", "s", "i", "o", "n">>,
          JInvalid),
      Doc(<<">", "=", "x">>,
          JInvalid),
      Doc(<<>>,
          JInvalid) }

FileNames == {"package.json", ".nvmrc", ".node-version"}

IsJString(j) == j.t = "string"

\* Option<String>: absent, null or a string.
IsOptString(o, f) == f \in DOMAIN o => o[f].t \in {"null", "string"}

\* HashMap<String, String>
IsStringMap(j) ==
    j.t = "object" /\ \A k \in DOMAIN j.fields : IsJString(j.fields[k])

\* BinField, untagged: a string or a map of strings.
IsBinField(j) == IsJString(j) \/ IsStringMap(j)

\* VoltaField: four optional strings.
IsVoltaField(j) ==
    j.t = "object" /\ \A f \in {"node", "npm", "pnpm", "yarn"} : IsOptString(j.fields, f)

\* Deserialize of PackageJson: every field optional, each of its own type,
\* unknown fields ignored.  Ok carries the engines field.
PackageJsonFromStr(doc) ==
    LET j == doc.json
        o == j.fields
        absent(f) == f \notin DOMAIN o \/ o[f].t = "null"
    IN  IF /\ j.t = "object"
           /\ (absent("bin") \/ IsBinField(o["bin"]))
           /\ (absent("engines") \/ IsStringMap(o["engines"]))
           /\ \A f \in {"main", "name", "packageManager", "version"} : IsOptString(o, f)
           /\ (absent("volta") \/ IsVoltaField(o["volta"]))
        THEN Ok([engines |-> IF absent("engines") THEN None
                             ELSE Some(o["engines"].fields)])
        ELSE Err("Json", doc.text)

\* Variant of ManifestVersion that reports a manifest it cannot deserialize.
ManifestVersionStrict(doc) ==
    LET pkg == PackageJsonFromStr(doc)
    IN  IF pkg.tag # "Ok" THEN pkg
        ELSE IF pkg.value.engines.tag = "Some" /\ BIN \in DOMAIN pkg.value.engines.value
        THEN LET c == UnresolvedParse(pkg.value.engines.value[BIN].s)
             IN  IF c.tag = "Ok" THEN Ok(Some(c.value)) ELSE c
        ELSE Ok(None)

\* The package.json branch: the three nested if-lets.
ManifestVersion(doc) ==
    LET pkg == PackageJsonFromStr(doc)
    IN  IF /\ pkg.tag = "Ok"
           /\ pkg.value.engines.tag = "Some"
           /\ BIN \in DOMAIN pkg.value.engines.value
        THEN LET c == UnresolvedParse(pkg.value.engines.value[BIN].s)
             IN  IF c.tag = "Ok" THEN Ok(Some(c.value)) ELSE c
        ELSE Ok(None)

\* The else branch: the whole content is the spec.
PinVersion(doc) ==
    LET c == UnresolvedParse(doc.text)
    IN  IF c.tag = "Ok" THEN Ok(Some(c.value)) ELSE c

\* parse_version_file
ParseVersionFileResult(file, doc) ==
    LET version == IF file = "package.json" THEN ManifestVersion(doc) ELSE PinVersion(doc)
    IN  IF version.tag = "Ok" THEN Ok([version |-> version.value]) ELSE version

\* ---------------------------------------------------------- download_prebuilt
HostOSes == {"Linux", "MacOS", "Windows", "FreeBSD"}

HostArches == {"X64", "Arm64", "Arm", "Powerpc64", "S390x", "X86", "Riscv64"}

\* Variant of SupportedPermutations that lets an architecture without a token through.
SupportedPermutationsWide ==
    [ Linux   |-> {"X64", "Arm64", "Arm", "Powerpc64", "S390x", "Riscv64"},
      MacOS   |-> {"X64", "Arm64"},
      Windows |-> {"X64", "X86", "Arm64"} ]

\* The permutations! table handed to check_supported_os_and_arch.
SupportedPermutations ==
    [ Linux   |-> {"X64", "Arm64", "Arm", "Powerpc64", "S390x"},
      MacOS   |-> {"X64", "Arm64"},
      Windows |-> {"X64", "X86", "Arm64"} ]

\* check_supported_os_and_arch(NAME, &env, permutations)
CheckSupported(e) ==
    IF e.os \in DOMAIN SupportedPermutations /\ e.arch \in SupportedPermutations[e.os]
    THEN Ok(TRUE)
    ELSE Err("UnsupportedPlatform", <<e.os, e.arch>>)

\* map_arch
MapArch(os, arch) ==
    CASE arch = "Arm"       -> Ok("armv7l")
      [] arch = "Arm64"     -> Ok("arm64")
      [] arch = "Powerpc64" -> Ok(IF os = "Linux" THEN "ppc64le" ELSE "ppc64")
      [] arch = "S390x"     -> Ok("s390x")
      [] arch = "X64"       -> Ok("x64")
      [] arch = "X86"       -> Ok("x86")
      [] OTHER              -> Panic("unreachable")

ReleaseHost == "https://nodejs.org/download/release"

NightlyHost == "https://nodejs.org/download/nightly"

NightlyIndexUrl == "https://nodejs.org/download/nightly/index.json"

\* First major version with native macOS arm64 builds.
CompatMajor == 16

\* Major of the placeholder Version::new(20, 0, 0).
PlaceholderMajor == 20

\* The major the macOS branch looks at.
ParsedMajor(version) ==
    IF version.tag = "Version" THEN version.version.major ELSE PlaceholderMajor

\* Variant of UseRosetta that also sends major 16 to the x64 build.
UseRosettaUpTo(arch, version) == arch = "Arm64" /\ ParsedMajor(version) <= CompatMajor

\* env.arch == HostArch::Arm64 && parsed_version.major < 16
UseRosetta(arch, version) == arch = "Arm64" /\ ParsedMajor(version) < CompatMajor

\* The match on env.os that builds the prefix.
Prefix(e, version, arch) ==
    CASE e.os = "Linux" ->
            Ok("node-v" \o ShowSpec(version) \o "-linux-" \o arch)
      [] e.os = "MacOS" ->
            IF UseRosetta(e.arch, version)
            THEN Ok("node-v" \o ShowSpec(version) \o "-darwin-x64")
            ELSE Ok("node-v" \o ShowSpec(version) \o "-darwin-" \o arch)
      [] e.os = "Windows" ->
            Ok("node-v" \o ShowSpec(version) \o "-win-" \o arch)
      [] OTHER -> Panic("unreachable")

\* Variant of Filename that packs every build as .tar.xz.
FilenameTarOnly(e, prefix) == prefix \o ".tar.xz"

\* The archive file name.
Filename(e, prefix) ==
    IF e.os = "Windows" THEN prefix \o ".zip" ELSE prefix \o ".tar.xz"

\* DownloadPrebuiltOutput
Descriptor(host, version, prefix, filename) ==
    [ archive_prefix |-> Some(prefix),
      download_url   |-> host \o "/v" \o ShowSpec(version) \o "/" \o filename,
      download_name  |-> Some(filename),
      checksum_url   |-> Some(host \o "/v" \o ShowSpec(version) \o "/SHASUMS256.txt") ]

\* Variant of CanaryLocals that keeps the release host.
CanaryLocalsReleaseHost(loc, version) == [loc EXCEPT !.version = version]

\* host = nightly; version = the parsed first entry.
CanaryLocals(loc, version) ==
    [loc EXCEPT !.host = NightlyHost, !.version = version]

\* Raw "version" strings of nightly index entries.
NightlyVersions ==
    { <<"v", "2", "1", ".", "0", ".", "0", "-", "n", "i", "g", "h", "t", "l", "y", "2", "0", "2", "3">>,
      <<"v", "1", "5", ".", "9", ".", "1">>,
      <<"l", "a", "t", "e", "s", "t">>,
      <<"2", "1", ".", "x", "!">> }

NightlyEntries == { NodeDistVersion(v, State(FALSE)) : v \in NightlyVersions }

NightlyReplies ==
    {FetchError}
    \cup UNION { { Ok(r) : r \in [1..k -> NightlyEntries] } : k \in 0..MaxNightly }

\* input.context.version
ContextVersions ==
    { Version(Ver(14, 0, 0, <<>>)), Version(Ver(15, 14, 0, <<>>)),
      Version(Ver(16, 0, 0, <<>>)), Version(Ver(18, 0, 0, <<>>)),
      Version(Ver(20, 10, 0, <<>>)), Alias(LatestKey), Canary }

\* ------------------------------------------------------------------ machine
NoInput == [none |-> TRUE]

NoEnv == [os |-> "none", arch |-> "none"]

NoLocals == [arch |-> "", version |-> None, host |-> ""]

Init ==
    /\ op = "none"
    /\ pc = "idle"
    /\ input = NoInput
    /\ env = NoEnv
    /\ fetched = <<>>
    /\ reply = None
    /\ locals = NoLocals
    /\ output = None

\* A run of the machine is one plugin call: the handlers share no state, so
\* every call starts from the state after construction.
LoadVersions ==
    /\ op = "none"
    /\ \/ reply' = FetchError
       \/ \E k \in 0..MaxEntries : \E r \in [1..k -> IndexEntries] : reply' = Ok(r)
    /\ output' = LoadVersionsResult(reply')
    /\ op' = "load_versions"
    /\ input' = NoInput
    /\ env' = NoEnv
    /\ fetched' = <<ReleaseIndexUrl>>
    /\ locals' = NoLocals
    /\ pc' = "returned"

ResolveVersion ==
    /\ op = "none"
    /\ \/ \E initial \in InitialSpecs : input' = [initial |-> initial]
       \/ \E k \in 0..MaxAliasLen : \E a \in [1..k -> AliasAlphabet] :
            input' = [initial |-> Alias(a)]
    /\ output' = ResolveVersionResult(input'.initial)
    /\ op' = "resolve_version"
    /\ pc' = "returned"
    /\ UNCHANGED <<env, fetched, reply, locals>>

ParseVersionFile ==
    /\ op = "none"
    /\ \E file \in FileNames, doc \in Contents :
        /\ input' = [file |-> file, content |-> doc]
        /\ output' = ParseVersionFileResult(file, doc)
    /\ op' = "parse_version_file"
    /\ pc' = "returned"
    /\ UNCHANGED <<env, fetched, reply, locals>>

\* download_prebuilt is called: get_proto_environment gives the platform.
DownloadPrebuilt ==
    /\ op = "none"
    /\ \E os \in HostOSes, arch \in HostArches, version \in ContextVersions :
        /\ env' = [os |-> os, arch |-> arch]
        /\ input' = [version |-> version]
    /\ op' = "download_prebuilt"
    /\ pc' = "check"
    /\ UNCHANGED <<fetched, reply, locals, output>>

\* check_supported_os_and_arch(...)?
CheckPlatform ==
    /\ op = "download_prebuilt" /\ pc = "check"
    /\ LET r == CheckSupported(env)
       IN  IF r.tag = "Ok"
           THEN pc' = "map_arch" /\ UNCHANGED output
           ELSE pc' = "returned" /\ output' = r
    /\ UNCHANGED <<op, input, env, fetched, reply, locals>>

\* let arch = map_arch(..)?; let mut version = ..; let mut host = ..;
MapArchStep ==
    /\ op = "download_prebuilt" /\ pc = "map_arch"
    /\ LET r == MapArch(env.os, env.arch)
       IN  IF r.tag = "Ok"
           THEN /\ locals' = [arch |-> r.value, version |-> input.version,
                              host |-> ReleaseHost]
                /\ pc' = "canary"
                /\ UNCHANGED output
           ELSE /\ output' = r
                /\ pc' = "returned"
                /\ UNCHANGED locals
    /\ UNCHANGED <<op, input, env, fetched, reply>>

\* if version.is_canary() { fetch the nightly index, take its first entry }
CanaryStep ==
    /\ op = "download_prebuilt" /\ pc = "canary"
    /\ IF locals.version.tag = "Canary"
       THEN /\ fetched' = Append(fetched, NightlyIndexUrl)
            /\ \E rep \in NightlyReplies :
                /\ reply' = rep
                /\ IF rep.tag = "Err"
                   THEN output' = rep /\ pc' = "returned" /\ UNCHANGED locals
                   ELSE IF Len(rep.value) = 0
                   THEN /\ output' = Panic("index out of bounds")
                        /\ pc' = "returned"
                        /\ UNCHANGED locals
                   ELSE LET v == VersionSpecParse(rep.value[1].version)
                        IN  IF v.tag = "Ok"
                            THEN /\ locals' = CanaryLocals(locals, v.value)
                                 /\ pc' = "build"
                                 /\ UNCHANGED output
                            ELSE /\ output' = v
                                 /\ pc' = "returned"
                                 /\ UNCHANGED locals
       ELSE /\ pc' = "build"
            /\ UNCHANGED <<fetched, reply, locals, output>>
    /\ UNCHANGED <<op, input, env>>

\* prefix, filename and the returned DownloadPrebuiltOutput.
BuildStep ==
    /\ op = "download_prebuilt" /\ pc = "build"
    /\ LET prefix == Prefix(env, locals.version, locals.arch)
       IN  IF prefix.tag = "Ok"
           THEN output' = Ok(Descriptor(locals.host, locals.version, prefix.value,
                                        Filename(env, prefix.value)))
           ELSE output' = prefix
    /\ pc' = "returned"
    /\ UNCHANGED <<op, input, env, fetched, reply, locals>>

Next ==
    \/ LoadVersions
    \/ ResolveVersion
    \/ ParseVersionFile
    \/ DownloadPrebuilt
    \/ CheckPlatform
    \/ MapArchStep
    \/ CanaryStep
    \/ BuildStep

Spec == Init /\ [][Next]_vars

\* ------------------------------------------------- claims on load_versions
\* A load_versions call that returned Ok, the entries it was given and the
\* version the loop parses for one entry (line 132).
Loaded == op = "load_versions" /\ output.tag = "Ok"

Entries == reply.value

EntryVersion(e) == VersionParse(StripMarker(e.version)).value

Channelled == { i \in 1..Len(Entries) : Entries[i].lts.tag = "Name" }

Least(S) == CHOOSE i \in S : \A j \in S : i <= j

\* C1: after every catalog load that returns, `latest` and
\* aliases["latest"] are both the version of the first raw entry, whatever
\* its channel marker and even when a channel is itself named "latest".
C1_LatestIsFirstEntry ==
    Loaded =>
        /\ Len(Entries) >= 1
        /\ output.value.latest = Some(EntryVersion(Entries[1]))
        /\ LatestKey \in DOMAIN output.value.aliases
        /\ output.value.aliases[LatestKey] = EntryVersion(Entries[1])

\* The first entry carries no channel marker and a later entry with another
\* version carries a channel whose lower-cased name is "latest".
C1_Witness ==
    /\ Loaded
    /\ Entries[1].lts.tag = "State"
    /\ \E i \in Channelled :
        /\ ToLowercase(Entries[i].lts.name) = LatestKey
        /\ EntryVersion(Entries[i]) # EntryVersion(Entries[1])

\* C2: after every catalog load that returns, aliases["stable"] is the
\* version of the first entry, in input order, that carries a channel marker
\* (NodeDistLTS::Name); the key is absent when no entry carries one.
C2_StableIsFirstChannelled ==
    Loaded =>
        IF Channelled = {}
        THEN StableKey \notin DOMAIN output.value.aliases
        ELSE /\ StableKey \in DOMAIN output.value.aliases
             /\ output.value.aliases[StableKey] =
                    EntryVersion(Entries[Least(Channelled)])

\* The first channelled entry is not the first entry, and a later channelled
\* entry has another version.
C2_Witness ==
    /\ Loaded
    /\ Channelled # {}
    /\ Least(Channelled) > 1
    /\ \E i \in Channelled :
        EntryVersion(Entries[i]) # EntryVersion(Entries[Least(Channelled)])

\* C3 as stated: for every channel name c carried by an entry,
\* aliases[lowercase(c)] is the version of the first entry whose channel
\* marker is c.
C3_AsStated ==
    Loaded =>
        \A i \in Channelled :
            LET c     == Entries[i].lts.name
                first == Least({ j \in Channelled : Entries[j].lts.name = c })
            IN  /\ ToLowercase(c) \in DOMAIN output.value.aliases
                /\ output.value.aliases[ToLowercase(c)] = EntryVersion(Entries[first])

\* C3 amended: for every channel name c carried by an entry whose lower-cased
\* form is neither "stable" nor "latest", aliases[lowercase(c)] is the
\* version of the first entry whose channel name lower-cases to lowercase(c).
C3_FirstOccurrenceWins ==
    Loaded =>
        \A i \in Channelled :
            LET key   == ToLowercase(Entries[i].lts.name)
                first == Least({ j \in Channelled :
                                    ToLowercase(Entries[j].lts.name) = key })
            IN  key \notin {StableKey, LatestKey} =>
                    /\ key \in DOMAIN output.value.aliases
                    /\ output.value.aliases[key] = EntryVersion(Entries[first])

\* Two entries of one channel (names differing in case only) with different
\* versions, the later one not the first of its channel.
C3_Witness ==
    /\ Loaded
    /\ \E i, j \in Channelled :
        /\ i < j
        /\ ToLowercase(Entries[i].lts.name) = ToLowercase(Entries[j].lts.name)
        /\ ToLowercase(Entries[i].lts.name) \notin {StableKey, LatestKey}
        /\ Entries[i].lts.name # Entries[j].lts.name
        /\ EntryVersion(Entries[i]) # EntryVersion(Entries[j])

\* The raw string with its leading non-digit marker removed, and nothing
\* removed when it starts with a digit.
WithoutMarker(raw) ==
    IF raw # <<>> /\ ~IsDigit(raw[1]) THEN Tail(raw) ELSE raw

Malformed == { i \in 1..Len(Entries) : VersionParse(WithoutMarker(Entries[i].version)).tag = "Err" }

\* C10: for every fetched sequence of raw entries load_versions either
\* returns one version per entry, in input order, each the parse of the raw
\* string without its leading non-digit marker (a leading digit is never
\* removed), or fails with MalformedVersion for the first raw string that
\* does not parse; there is no other outcome.
C10_AllOrNothing ==
    (op = "load_versions" /\ reply.tag = "Ok") =>
        IF Malformed = {}
        THEN /\ output.tag = "Ok"
             /\ Len(output.value.versions) = Len(Entries)
             /\ \A i \in 1..Len(Entries) :
                    output.value.versions[i] =
                        VersionParse(WithoutMarker(Entries[i].version)).value
        ELSE /\ output.tag = "Err"
             /\ output.kind = "MalformedVersion"
             /\ output.what = WithoutMarker(Entries[Least(Malformed)].version)


\* --------------------------------------------------- claims on resolve_version
Resolved == op = "resolve_version" /\ pc = "returned"

\* C4: the rewrite rules apply in order, first match wins: "node" gives
\* Alias("latest"); exactly "lts-*" or "lts/*" gives Alias("stable"), never
\* the stripped "*"; another alias starting with "lts-" or "lts/" gives the
\* rest after the four characters, case unchanged; any other alias and every
\* non-Alias input give no replacement; a replacement is always an Alias.
C4_RulePrecedence ==
    Resolved =>
        LET i == input.initial
            a == i.alias
            n == Len(a)
        IN  /\ output.tag = "Ok"
            /\ (output.value.candidate.tag = "Some"
                    => output.value.candidate.value.tag = "Alias")
            /\ (i.tag # "Alias" => output.value.candidate = None)
            /\ (i.tag = "Alias" =>
                  output.value.candidate =
                    CASE a = <<"n", "o", "d", "e">> ->
                            Some(Alias(<<"l", "a", "t", "e", "s", "t">>))
                      [] a \in { <<"l", "t", "s", "-", "*">>,
                                 <<"l", "t", "s", "/", "*">> } ->
                            Some(Alias(<<"s", "t", "a", "b", "l", "e">>))
                      [] /\ n >= 4
                         /\ <<a[1], a[2], a[3]>> = <<"l", "t", "s">>
                         /\ a[4] \in {"-", "/"}
                         /\ ~(n = 5 /\ a[5] = "*") ->
                            Some(Alias([k \in 1..(n - 4) |-> a[k + 4]]))
                      [] OTHER -> None)

\* "lts-*" was resolved, to "stable".
C4_Witness ==
    /\ Resolved
    /\ input.initial = Alias(<<"l", "t", "s", "-", "*">>)
    /\ output.value.candidate = Some(Alias(StableKey))

\* ------------------------------------------------ claims on parse_version_file
Parsed == op = "parse_version_file" /\ pc = "returned"

\* The manifest deserializes and its engines map has an entry for "node".
HasNodeEngine(doc) ==
    LET pkg == PackageJsonFromStr(doc)
    IN  /\ pkg.tag = "Ok"
        /\ pkg.value.engines.tag = "Some"
        /\ "node" \in DOMAIN pkg.value.engines.value

\* The outcome of parsing text as the constraint of the file.
ParsedAs(text) ==
    LET c == UnresolvedParse(text)
    IN  IF c.tag = "Ok" THEN Ok([version |-> Some(c.value)])
        ELSE Err("InvalidVersionSpec", text)

\* C8: for package.json, a content that does not deserialize, or that has no
\* engines entry for "node", gives "no constraint found" and never an error,
\* and an engines.node value gives that value parsed as the constraint; for
\* every other file name the whole trimmed content is parsed, a parse failure
\* is the error InvalidVersionSpec and never "no constraint found".
C8_ManifestLenientPinStrict ==
    Parsed =>
        LET doc == input.content
        IN  IF input.file = "package.json"
            THEN IF HasNodeEngine(doc)
                 THEN output = ParsedAs(doc.json.fields["engines"].fields["node"].s)
                 ELSE output = Ok([version |-> None])
            ELSE /\ output.tag = "Ok" => output = ParsedAs(Trim(doc.text))
                 /\ output.tag # "Ok" =>
                        /\ output.tag = "Err"
                        /\ output.kind = "InvalidVersionSpec"
                        /\ UnresolvedParse(Trim(doc.text)).tag = "Err"
                 /\ output # Ok([version |-> None])

\* package.json whose content is no JSON gave "no constraint found".
C8_Witness ==
    /\ Parsed
    /\ input.file = "package.json"
    /\ input.content.json = JInvalid
    /\ output = Ok([version |-> None])

\* ------------------------------------------------- claims on download_prebuilt
Located == op = "download_prebuilt" /\ pc = "returned" /\ output.tag = "Ok"

IsCanaryCall == op = "download_prebuilt" /\ input.version.tag = "Canary"

\* The support matrix and the tokens, as the documentation tabulates them.
Matrix ==
    { <<"Linux", "X64">>, <<"Linux", "Arm64">>, <<"Linux", "Arm">>,
      <<"Linux", "Powerpc64">>, <<"Linux", "S390x">>,
      <<"MacOS", "X64">>, <<"MacOS", "Arm64">>,
      <<"Windows", "X64">>, <<"Windows", "X86">>, <<"Windows", "Arm64">> }

OsToken == [Linux |-> "linux", MacOS |-> "darwin", Windows |-> "win"]

NativeToken(os, arch) ==
    CASE arch = "Arm"       -> "armv7l"
      [] arch = "Arm64"     -> "arm64"
      [] arch = "Powerpc64" -> IF os = "Linux" THEN "ppc64le" ELSE "ppc64"
      [] arch = "S390x"     -> "s390x"
      [] arch = "X64"       -> "x64"
      [] arch = "X86"       -> "x86"

ArchTokens == {"armv7l", "arm64", "ppc64le", "ppc64", "s390x", "x64", "x86"}

\* C5: the architecture token of the prefix is x64 exactly when the OS is
\* macOS, the architecture arm64 and the concrete resolved version's major is
\* below 16; in every other case (major 16 and above, another OS, no concrete
\* version) it is the native token of the architecture.
C5_RosettaBelow16 ==
    Located =>
        LET v      == locals.version
            forced == /\ env.os = "MacOS"
                      /\ env.arch = "Arm64"
                      /\ v.tag = "Version"
                      /\ v.version.major < 16
            token  == IF forced THEN "x64" ELSE NativeToken(env.os, env.arch)
        IN  output.value.archive_prefix =
                Some("node-v" \o ShowSpec(v) \o "-" \o OsToken[env.os] \o "-" \o token)

\* macOS arm64 asked for 14.0.0 and got the x64 build.
C5_Witness ==
    /\ Located
    /\ env = [os |-> "MacOS", arch |-> "Arm64"]
    /\ input.version = Version(Ver(14, 0, 0, <<>>))
    /\ output.value.archive_prefix = Some("node-v14.0.0-darwin-x64")

\* C6: the descriptor has prefix node-v<version>-<os-token>-<arch-token>,
\* file name <prefix><ext> with ext .zip exactly on Windows and .tar.xz
\* otherwise, download URL <host>/v<version>/<prefix><ext> and checksum URL
\* <host>/v<version>/SHASUMS256.txt, all from one version and one host, and
\* the prefix as its own field; Linux/x64 20.10.0 gives the documented URL.
C6_DescriptorShape ==
    Located =>
        LET d      == output.value
            ver    == ShowSpec(locals.version)
            host   == IF IsCanaryCall THEN "https://nodejs.org/download/nightly"
                      ELSE "https://nodejs.org/download/release"
            ext    == IF env.os = "Windows" THEN ".zip" ELSE ".tar.xz"
        IN  /\ \E tok \in ArchTokens :
                d.archive_prefix =
                    Some("node-v" \o ver \o "-" \o OsToken[env.os] \o "-" \o tok)
            /\ d.download_name = Some(d.archive_prefix.value \o ext)
            /\ d.download_url =
                    host \o "/v" \o ver \o "/" \o d.archive_prefix.value \o ext
            /\ d.checksum_url = Some(host \o "/v" \o ver \o "/SHASUMS256.txt")
            /\ (env = [os |-> "Linux", arch |-> "X64"]
                    /\ input.version = Version(Ver(20, 10, 0, <<>>)))
                    => d.download_url =
                        "https://nodejs.org/download/release/v20.10.0/node-v20.10.0-linux-x64.tar.xz"

\* Windows/x64 18.0.0 was located, as a .zip.
C6_Witness ==
    /\ Located
    /\ env = [os |-> "Windows", arch |-> "X64"]
    /\ input.version = Version(Ver(18, 0, 0, <<>>))
    /\ output.value.download_name = Some("node-v18.0.0-win-x64.zip")
    /\ output.value.download_url =
            "https://nodejs.org/download/release/v18.0.0/node-v18.0.0-win-x64.zip"

\* C7: the nightly index is fetched only for a canary request, and by the
\* time an artifact name is built it has been fetched exactly when the
\* request is canary; then version is the first listed entry's and host the
\* nightly root, otherwise the requested version unchanged and the release
\* root; prefix and URLs are built from that version and host.
C7_CanaryFetchFirst ==
    op = "download_prebuilt" =>
        /\ (fetched # <<>> => IsCanaryCall /\ fetched = <<NightlyIndexUrl>>)
        /\ (pc = "build" \/ Located) =>
            /\ (IsCanaryCall <=> fetched # <<>>)
            /\ IsCanaryCall =>
                /\ locals.host = "https://nodejs.org/download/nightly"
                /\ Ok(locals.version) = VersionSpecParse(reply.value[1].version)
            /\ ~IsCanaryCall =>
                /\ locals.host = "https://nodejs.org/download/release"
                /\ locals.version = input.version
        /\ Located =>
            LET ver  == ShowSpec(locals.version)
                host == IF IsCanaryCall THEN NightlyHost ELSE ReleaseHost
            IN  /\ \E tok \in ArchTokens :
                      /\ output.value.archive_prefix.value =
                            "node-v" \o ver \o "-" \o OsToken[env.os] \o "-" \o tok
                      /\ output.value.download_url \in
                            { host \o "/v" \o ver \o "/node-v" \o ver \o "-"
                                \o OsToken[env.os] \o "-" \o tok \o ext :
                              ext \in {".zip", ".tar.xz"} }
                /\ output.value.checksum_url =
                      Some(host \o "/v" \o ver \o "/SHASUMS256.txt")

\* A canary request on Linux/x64 whose index has two entries was located
\* from the first entry and the nightly root.
C7_Witness ==
    /\ Located
    /\ IsCanaryCall
    /\ env = [os |-> "Linux", arch |-> "X64"]
    /\ Len(reply.value) = 2
    /\ reply.value[1].version # reply.value[2].version
    /\ fetched = <<NightlyIndexUrl>>
    /\ output.value.download_url =
        "https://nodejs.org/download/nightly/v21.0.0-nightly2023/node-v21.0.0-nightly2023-linux-x64.tar.xz"

====
